---------------------------- MODULE Spec2Model ----------------------------
(***************************************************************************)
(* Colour flocking (Boids in RGB space): the Block agent of src/flock.js   *)
(* and the per-frame step() that drives a collection of Blocks.            *)
(*                                                                         *)
(* Numbers.  The program computes on JavaScript Numbers held in p5.Vector  *)
(* objects.  The model holds every Number in fixed point, in units of      *)
(* 1/Scale, as a TLA+ integer: the colour 255 is 255 * Scale, maxspeed 1.5 *)
(* is 1500 and maxforce 0.01 is 10.  Rounding is directed towards zero     *)
(* (quotients are truncated, the root a vector is divided by is rounded    *)
(* up), so a length the program keeps "<= max within rounding" is kept     *)
(* "<= max" exactly by the model.                                          *)
(*                                                                         *)
(* A vector is a triple <<x, y, z>>.  A Block is a record of its three     *)
(* colour vectors; pos, size and radius only serve display() and are left  *)
(* out.                                                                    *)
(***************************************************************************)
EXTENDS Integers, Sequences, FiniteSets

VARIABLES
    blocks,     \* Spec: the flock, a sequence of Blocks
    gains,      \* the three sliders read by flock(): [sep, ali, coh]
    phase,      \* Spec: "compute" (flock calls) or "integrate" (update calls)
    done,       \* Spec: the agents already processed in the current phase
    frame,      \* Spec: number of completed step() calls
    start,      \* Spec (history): blocks and gains when the current frame began
    rgb0,       \* Spec (history): the colours the constructor drew
    this,       \* SpecBlock: the Block whose methods are called
    last,       \* SpecBlock (history): the last call, its arguments and results
    ops         \* SpecBlock: number of calls made

vars == <<blocks, gains, phase, done, frame, start, rgb0, this, last, ops>>
flockVars == <<blocks, phase, done, frame, start, rgb0>>
blockVars == <<this, last, ops>>

---------------------------------------------------------------------------
(* Bounds of the model *)

NAgents == 2
MaxFrames == 3
MaxOps == 4

---------------------------------------------------------------------------
(* Numbers and p5.Vector *)

Scale == 1000

maxspeed == 1500
maxforce == 10

ColorMax == 255 * Scale

Zero == <<0, 0, 0>>

Abs(a) == IF a >= 0 THEN a ELSE -a

Max2(a, b) == IF a >= b THEN a ELSE b

\* a / b for b > 0, truncated towards zero
TDiv(a, b) == IF a >= 0 THEN a \div b ELSE -((-a) \div b)

\* |a| / b for b > 0, rounded up
UDiv(a, b) == (Abs(a) + b - 1) \div b

RECURSIVE SqrtSearch(_, _, _)
SqrtSearch(n, lo, hi) ==
    IF lo = hi THEN lo
    ELSE LET mid == (lo + hi) \div 2
         IN  IF mid * mid >= n THEN SqrtSearch(n, lo, mid)
             ELSE SqrtSearch(n, mid + 1, hi)

\* Math.sqrt, rounded up: the least r with r * r >= n
Sqrt(n) == SqrtSearch(n, 0, 46340)

VAdd(u, v) == <<u[1] + v[1], u[2] + v[2], u[3] + v[3]>>

VSub(u, v) == <<u[1] - v[1], u[2] - v[2], u[3] - v[3]>>

\* v.mult(k) for a Number k (in units of 1/Scale)
VMult(v, k) == <<TDiv(v[1] * k, Scale), TDiv(v[2] * k, Scale), TDiv(v[3] * k, Scale)>>

\* v.div(n) for a count n > 0
VDiv(v, n) == <<TDiv(v[1], n), TDiv(v[2], n), TDiv(v[3], n)>>

MagSq(v) == v[1] * v[1] + v[2] * v[2] + v[3] * v[3]

\* v.mag().  A long vector (a colour difference) is measured in coarser
\* units so that the squares stay within 32 bits.
Mag(v) ==
    LET m == Max2(Abs(v[1]), Max2(Abs(v[2]), Abs(v[3])))
        k == (m \div 26000) + 1
    IN  k * Sqrt(MagSq(<<UDiv(v[1], k), UDiv(v[2], k), UDiv(v[3], k)>>))

\* v.normalize(): p5 leaves a vector of length 0 as it is
Normalize(v) ==
    LET len == Mag(v)
    IN  IF len = 0 THEN v
        ELSE <<TDiv(v[1] * Scale, len), TDiv(v[2] * Scale, len), TDiv(v[3] * Scale, len)>>

\* v.limit(max): if (magSq > max * max) v.div(sqrt(magSq)).mult(max)
Limit(v, max) ==
    LET mSq == MagSq(v)
    IN  IF mSq > max * max
        THEN LET len == Sqrt(mSq)
             IN  <<TDiv(v[1] * max, len), TDiv(v[2] * max, len), TDiv(v[3] * max, len)>>
        ELSE v

RECURSIVE VSum(_)
VSum(vs) == IF vs = <<>> THEN Zero ELSE VAdd(Head(vs), VSum(Tail(vs)))

---------------------------------------------------------------------------
(* Block *)

NULL == [null |-> TRUE]

\* function Block(x, y, s), with the colour that random() drew
Block(c) == [rgb |-> c, rgbVel |-> Zero, rgbAcc |-> Zero]

\* the non-null entries of a peer list (the loops test blocks[i] !== null)
NonNull(blks) == SelectSeq(blks, LAMBDA x : x # NULL)

randomizeColor(b, c) == [b EXCEPT !.rgb = c]

setToColor(b, c) == [b EXCEPT !.rgb = c]

\* faulty variant: the force goes straight into the velocity
applyForceToVelocity(b, force) == [b EXCEPT !.rgbVel = VAdd(b.rgbVel, force)]

applyForce(b, force) == [b EXCEPT !.rgbAcc = VAdd(b.rgbAcc, force)]

\* faulty variant: the steering force is limited to maxspeed
seekLimitSpeed(b, target) ==
    LET desired == VMult(Normalize(VSub(target, b.rgb)), maxspeed)
    IN  Limit(VSub(desired, b.rgbVel), maxspeed)

seek(b, target) ==
    LET desired == VMult(Normalize(VSub(target, b.rgb)), maxspeed)
    IN  Limit(VSub(desired, b.rgbVel), maxforce)

separate(b, blks) ==
    LET ps == NonNull(blks)
        count == Len(ps)
        sum == VSum([i \in 1..count |-> Normalize(VSub(b.rgb, ps[i].rgb))])
    IN  IF count > 0
        THEN Limit(VSub(VMult(Normalize(VDiv(sum, count)), maxspeed), b.rgbVel), maxforce)
        ELSE Zero

\* faulty variant: the loop sums the peers' colours, as cohesion does
alignColors(b, blks) ==
    LET ps == NonNull(blks)
        count == Len(ps)
        sum == VSum([i \in 1..count |-> ps[i].rgb])
    IN  IF count > 0
        THEN Limit(VSub(VMult(Normalize(VDiv(sum, count)), maxspeed), b.rgbVel), maxforce)
        ELSE Zero

align(b, blks) ==
    LET ps == NonNull(blks)
        count == Len(ps)
        sum == VSum([i \in 1..count |-> ps[i].rgbVel])
    IN  IF count > 0
        THEN Limit(VSub(VMult(Normalize(VDiv(sum, count)), maxspeed), b.rgbVel), maxforce)
        ELSE Zero

cohesion(b, blks) ==
    LET ps == NonNull(blks)
        count == Len(ps)
        sum == VSum([i \in 1..count |-> ps[i].rgb])
    IN  IF count > 0 THEN seek(b, VDiv(sum, count)) ELSE Zero

\* the three forces flock() applies, each scaled by its slider
flockForces(b, blks, g) ==
    <<VMult(separate(b, blks), g.sep), VMult(align(b, blks), g.ali),
      VMult(cohesion(b, blks), g.coh)>>

flock(b, blks, g) ==
    LET f == flockForces(b, blks, g)
    IN  applyForce(applyForce(applyForce(b, f[1]), f[2]), f[3])

\* faulty variant: above 255 the velocity is negated but the value is kept
edgeChannelNoUpper(c, v) ==
    IF c > ColorMax THEN <<c, -v>>
    ELSE IF c < 0 THEN <<0, -v>>
    ELSE <<c, v>>

\* one channel of edges(): <<value, velocity component>>
edgeChannel(c, v) ==
    IF c > ColorMax THEN <<ColorMax, -v>>
    ELSE IF c < 0 THEN <<0, -v>>
    ELSE <<c, v>>

\* faulty variant: the z branch negates the y component of the velocity
edgesWrongComponent(b) ==
    LET x == edgeChannel(b.rgb[1], b.rgbVel[1])
        y == edgeChannel(b.rgb[2], b.rgbVel[2])
        z == edgeChannel(b.rgb[3], y[2])
    IN  [b EXCEPT !.rgb = <<x[1], y[1], z[1]>>, !.rgbVel = <<x[2], z[2], b.rgbVel[3]>>]

edges(b) ==
    LET x == edgeChannel(b.rgb[1], b.rgbVel[1])
        y == edgeChannel(b.rgb[2], b.rgbVel[2])
        z == edgeChannel(b.rgb[3], b.rgbVel[3])
    IN  [b EXCEPT !.rgb = <<x[1], y[1], z[1]>>, !.rgbVel = <<x[2], y[2], z[2]>>]

\* faulty variant: the accumulator is not reset
updateKeepAcc(b) ==
    LET vel == Limit(VAdd(b.rgbVel, b.rgbAcc), maxspeed)
    IN  edges([b EXCEPT !.rgbVel = vel, !.rgb = VAdd(b.rgb, vel)])

\* faulty variant: the velocity is limited before the acceleration is added
updateLimitFirst(b) ==
    LET vel == VAdd(Limit(b.rgbVel, maxspeed), b.rgbAcc)
        moved == edges([b EXCEPT !.rgbVel = vel, !.rgb = VAdd(b.rgb, vel)])
    IN  [moved EXCEPT !.rgbAcc = VMult(b.rgbAcc, 0)]

update(b) ==
    LET vel == Limit(VAdd(b.rgbVel, b.rgbAcc), maxspeed)
        moved == edges([b EXCEPT !.rgbVel = vel, !.rgb = VAdd(b.rgb, vel)])
    IN  [moved EXCEPT !.rgbAcc = VMult(b.rgbAcc, 0)]

---------------------------------------------------------------------------
(* Inputs *)

Col(r, g, b) == <<r * Scale, g * Scale, b * Scale>>

\* colours floor(random(256)) can draw
InitColors == {Col(0, 0, 0), Col(255, 255, 255), Col(255, 0, 128)}

\* slider settings; the first is the one noted in flock()
DefaultGains == [sep |-> 1200, ali |-> 1000, coh |-> 2000]

GainTriples == {DefaultGains,
                [sep |-> 5000, ali |-> 0, coh |-> 0],
                [sep |-> -1000, ali |-> 2000, coh |-> 5000]}

---------------------------------------------------------------------------
(* Spec: the frame loop.  step() calls flock(blocks) on every agent, then  *)
(* update() on every agent; the order within each pass is left open.       *)

Agents == 1..Len(blocks)

NoCall == [op |-> "none", pre |-> Block(Zero), peers |-> <<>>, arg |-> Zero,
           sep |-> Zero, ali |-> Zero, coh |-> Zero, ret |-> Zero]

Init ==
    /\ \E n \in 1..NAgents : blocks \in [1..n -> {Block(c) : c \in InitColors}]
    /\ gains = DefaultGains
    /\ phase = "compute"
    /\ done = {}
    /\ frame = 0
    /\ start = [blocks |-> blocks, gains |-> gains]
    /\ rgb0 = [i \in 1..Len(blocks) |-> blocks[i].rgb]
    /\ this = Block(Zero)
    /\ last = NoCall
    /\ ops = 0

SetGains(g) ==
    /\ phase = "compute"
    /\ done = {}
    /\ frame < MaxFrames
    /\ gains' = g
    /\ UNCHANGED <<flockVars, blockVars>>

FlockOne(i) ==
    /\ phase = "compute"
    /\ frame < MaxFrames
    /\ i \notin done
    /\ blocks' = [blocks EXCEPT ![i] = flock(blocks[i], blocks, gains)]
    /\ start' = IF done = {} THEN [blocks |-> blocks, gains |-> gains] ELSE start
    /\ IF done \cup {i} = Agents
       THEN phase' = "integrate" /\ done' = {}
       ELSE phase' = phase /\ done' = done \cup {i}
    /\ UNCHANGED <<gains, frame, rgb0, blockVars>>

UpdateOne(i) ==
    /\ phase = "integrate"
    /\ i \notin done
    /\ blocks' = [blocks EXCEPT ![i] = update(blocks[i])]
    /\ IF done \cup {i} = Agents
       THEN phase' = "compute" /\ done' = {} /\ frame' = frame + 1
       ELSE phase' = phase /\ done' = done \cup {i} /\ frame' = frame
    /\ UNCHANGED <<gains, start, rgb0, blockVars>>

Next ==
    \/ \E g \in GainTriples : SetGains(g)
    \/ \E i \in Agents : FlockOne(i)
    \/ \E i \in Agents : UpdateOne(i)

Spec == Init /\ [][Next]_vars

\* step() with the agents taken in index order in both passes
RECURSIVE FlockFrom(_, _, _)
FlockFrom(blks, g, i) ==
    IF i > Len(blks) THEN blks
    ELSE FlockFrom([blks EXCEPT ![i] = flock(blks[i], blks, g)], g, i + 1)

step(blks, g) == LET f == FlockFrom(blks, g, 1) IN [i \in 1..Len(blks) |-> update(f[i])]

---------------------------------------------------------------------------
(* Properties of the frame loop (checked under Spec) *)

AtFrameEnd == phase = "compute" /\ done = {} /\ frame > 0

\* the acceleration flock() leaves behind when it starts from zero
frameForce(b, blks, g) ==
    LET f == flockForces(b, blks, g) IN VAdd(VAdd(VAdd(Zero, f[1]), f[2]), f[3])

\* agent i has had flock() but not yet update() in the current frame
Pending(i) ==
    \/ phase = "compute" /\ i \in done
    \/ phase = "integrate" /\ i \notin done

\* the peer list without its i-th entry
Remove(blks, i) == SubSeq(blks, 1, i - 1) \o SubSeq(blks, i + 1, Len(blks))

\* equal up to one unit of rounding in each component
Near(u, v) == \A k \in 1..3 : Abs(u[k] - v[k]) <= 1

\* C1 (boundary invariant): whatever the gains, in every state reached by
\* step() calls from constructed agents each colour channel of each agent
\* lies in [0, 255].
C1_BoundaryInvariant ==
    \A i \in Agents : \A k \in 1..3 :
        blocks[i].rgb[k] >= 0 /\ blocks[i].rgb[k] <= ColorMax

\* a step has ended with an agent reflected at 255 and another reflected at 0
C1_Witness ==
    /\ AtFrameEnd
    /\ \E i \in Agents : \E k \in 1..3 :
           blocks[i].rgb[k] = ColorMax /\ blocks[i].rgbVel[k] < 0
    /\ \E i \in Agents : \E k \in 1..3 :
           blocks[i].rgb[k] = 0 /\ blocks[i].rgbVel[k] > 0

\* C2 (order independence): whatever order the agents were taken in during
\* the compute pass and the integrate pass, the state after a step is the
\* one the index order gives.
C2_OrderIndependence ==
    AtFrameEnd => blocks = step(start.blocks, start.gains)

\* a step of a flock of two has ended with the agents moving
C2_Witness ==
    /\ AtFrameEnd
    /\ Len(blocks) >= 2
    /\ \A i \in Agents : blocks[i].rgbVel # Zero /\ blocks[i].rgb # start.blocks[i].rgb
    /\ frame >= 2

\* C7 (empty-flock idempotence): a single agent that starts at rest never
\* accumulates a force, never gains velocity and keeps its initial colour.
C7_SingleAgentAtRest ==
    Len(blocks) = 1 =>
        /\ blocks[1].rgbAcc = Zero
        /\ blocks[1].rgbVel = Zero
        /\ blocks[1].rgb = rgb0[1]

\* a single agent of non-zero colour after two steps, the second one under
\* other gains than the first
C7_Witness ==
    /\ Len(blocks) = 1
    /\ AtFrameEnd
    /\ frame >= 2
    /\ rgb0[1] # Zero
    /\ start.gains # DefaultGains

\* C10 (acceleration does not persist): the accumulator is zero after every
\* update(); what update() integrates is exactly the three scaled forces
\* flock() applied in the same frame, so the state after a step is update()
\* of the state before it with this frame's forces alone.
C10_AccelerationPerFrame ==
    /\ \A i \in Agents : ~Pending(i) => blocks[i].rgbAcc = Zero
    /\ \A i \in Agents : Pending(i) =>
           blocks[i].rgbAcc = frameForce(start.blocks[i], start.blocks, start.gains)
    /\ AtFrameEnd =>
           \A i \in Agents :
               blocks[i] = update([start.blocks[i] EXCEPT !.rgbAcc =
                               frameForce(start.blocks[i], start.blocks, start.gains)])

\* in a later frame an agent that already moves holds a non-zero force
C10_Witness ==
    /\ frame >= 1
    /\ phase = "integrate"
    /\ \E i \in Agents :
           /\ i \notin done
           /\ blocks[i].rgbAcc # Zero
           /\ blocks[i].rgbVel # Zero
    /\ \E i \in Agents : i \in done

\* C9 (self is not its own peer): in a flock of at least two, whenever
\* flock() may be called, separate, align and cohesion over the full
\* collection return (up to rounding) what they return over the collection
\* without the calling agent.
C9_SelfExcluded ==
    (phase = "compute" /\ Len(blocks) >= 2) =>
        \A i \in Agents :
            /\ Near(separate(blocks[i], blocks), separate(blocks[i], Remove(blocks, i)))
            /\ Near(align(blocks[i], blocks), align(blocks[i], Remove(blocks, i)))
            /\ Near(cohesion(blocks[i], blocks), cohesion(blocks[i], Remove(blocks, i)))

---------------------------------------------------------------------------
(* SpecBlock: one Block and the calls a caller can make on it, in any      *)
(* order.  A peer list is a sequence of references: the Block itself, a    *)
(* null slot, or one of two other Blocks.                                  *)

\* a peer moving at maxspeed whose colour is one the constructor can draw
P1 == [rgb |-> Col(255, 0, 128), rgbVel |-> <<900, -1200, 0>>, rgbAcc |-> Zero]

P2 == [rgb |-> Col(10, 200, 30), rgbVel |-> <<0, 300, -400>>, rgbAcc |-> Zero]

PeerLists == {<<>>, <<"null">>, <<"this">>, <<"this", "p1">>,
              <<"p1", "null", "p2">>, <<"null", "this", "p1", "p2">>}

Deref(r, b) ==
    CASE r = "null" -> NULL
      [] r = "this" -> b
      [] r = "p1" -> P1
      [] r = "p2" -> P2

Peers(refs, b) == [i \in 1..Len(refs) |-> Deref(refs[i], b)]

\* forces a caller hands to applyForce(): one far above maxspeed, one small
Forces == {<<4000, -3000, 2000>>, <<-3, 4, 1>>}

\* colours a caller hands to setToColor(): nothing keeps them in range
SetColors == {Col(300, -20, 100), Col(100, 256, -1), Col(-20, 100, 300)}

SeekTargets == {Col(128, 128, 128)}

InitBlock ==
    /\ this \in {Block(c) : c \in InitColors}
    /\ last = NoCall
    /\ ops = 0
    /\ blocks = <<>>
    /\ gains = DefaultGains
    /\ phase = "compute"
    /\ done = {}
    /\ frame = 0
    /\ start = [blocks |-> <<>>, gains |-> DefaultGains]
    /\ rgb0 = <<>>

Called(op) == [NoCall EXCEPT !.op = op, !.pre = this]

CallRandomizeColor(c) ==
    /\ ops < MaxOps
    /\ this' = randomizeColor(this, c)
    /\ last' = [Called("randomizeColor") EXCEPT !.arg = c]
    /\ ops' = ops + 1
    /\ UNCHANGED <<flockVars, gains>>

CallSetToColor(c) ==
    /\ ops < MaxOps
    /\ this' = setToColor(this, c)
    /\ last' = [Called("setToColor") EXCEPT !.arg = c]
    /\ ops' = ops + 1
    /\ UNCHANGED <<flockVars, gains>>

CallApplyForce(f) ==
    /\ ops < MaxOps
    /\ this' = applyForce(this, f)
    /\ last' = [Called("applyForce") EXCEPT !.arg = f]
    /\ ops' = ops + 1
    /\ UNCHANGED <<flockVars, gains>>

CallSeek(target) ==
    /\ ops < MaxOps
    /\ last' = [Called("seek") EXCEPT !.arg = target, !.ret = seek(this, target)]
    /\ ops' = ops + 1
    /\ UNCHANGED <<flockVars, gains, this>>

CallFlock(refs) ==
    /\ ops < MaxOps
    /\ this' = flock(this, Peers(refs, this), gains)
    /\ last' = [Called("flock") EXCEPT !.peers = refs,
                                       !.sep = separate(this, Peers(refs, this)),
                                       !.ali = align(this, Peers(refs, this)),
                                       !.coh = cohesion(this, Peers(refs, this))]
    /\ ops' = ops + 1
    /\ UNCHANGED <<flockVars, gains>>

CallUpdate ==
    /\ ops < MaxOps
    /\ this' = update(this)
    /\ last' = Called("update")
    /\ ops' = ops + 1
    /\ UNCHANGED <<flockVars, gains>>

CallEdges ==
    /\ ops < MaxOps
    /\ this' = edges(this)
    /\ last' = Called("edges")
    /\ ops' = ops + 1
    /\ UNCHANGED <<flockVars, gains>>

NextBlock ==
    \/ \E c \in InitColors : CallRandomizeColor(c)
    \/ \E c \in SetColors : CallSetToColor(c)
    \/ \E f \in Forces : CallApplyForce(f)
    \/ \E t \in SeekTargets \cup {this.rgb} : CallSeek(t)
    \/ \E refs \in PeerLists : CallFlock(refs)
    \/ CallUpdate
    \/ CallEdges

SpecBlock == InitBlock /\ [][NextBlock]_vars

---------------------------------------------------------------------------
(* Properties of a Block's methods (checked under SpecBlock) *)

\* C3 (degenerate seek): seek() of the Block's own colour returns the zero
\* vector, whatever the velocity.
C3_DegenerateSeek ==
    (last.op = "seek" /\ last.arg = last.pre.rgb) => last.ret = Zero

\* C4 (empty peer set): for a Block alone in its flock, separate, align and
\* cohesion return zero, flock() adds nothing to the acceleration, and the
\* update() that follows keeps every velocity component up to its sign.
C4_EmptyPeerSet ==
    (last.op = "flock" /\ last.peers = <<"this">>) =>
        /\ last.sep = Zero
        /\ last.ali = Zero
        /\ last.coh = Zero
        /\ this.rgbAcc = last.pre.rgbAcc
        /\ (last.pre.rgbAcc = Zero =>
               \A k \in 1..3 : Abs(update(this).rgbVel[k]) = Abs(last.pre.rgbVel[k]))

\* C5 (speed invariant): after update() the velocity is no longer than
\* maxspeed, whatever had been accumulated, and the reflection keeps the
\* length the clamp produced.
C5_SpeedInvariant ==
    last.op = "update" =>
        /\ MagSq(this.rgbVel) <= maxspeed * maxspeed
        /\ MagSq(this.rgbVel) <= MagSq(VAdd(last.pre.rgbVel, last.pre.rgbAcc))

\* update() has clamped an acceleration above maxspeed and reflected a channel
C5_Witness ==
    /\ last.op = "update"
    /\ MagSq(VAdd(last.pre.rgbVel, last.pre.rgbAcc)) > maxspeed * maxspeed
    /\ last.pre.rgbVel # Zero
    /\ \E k \in 1..3 : this.rgb[k] = ColorMax /\ this.rgbVel[k] < 0
    /\ \E k \in 1..3 : this.rgb[k] = 0 /\ this.rgbVel[k] > 0

\* C6 (force invariant): what separate, align, cohesion and seek return,
\* before any gain is applied, is no longer than maxforce, for every peer
\* list.
C6_ForceInvariant ==
    /\ last.op = "flock" =>
           /\ MagSq(last.sep) <= maxforce * maxforce
           /\ MagSq(last.ali) <= maxforce * maxforce
           /\ MagSq(last.coh) <= maxforce * maxforce
    /\ last.op = "seek" => MagSq(last.ret) <= maxforce * maxforce

\* flock() of a moving Block over a list with a null slot, the Block itself
\* and a peer of the same colour, every force being non-zero
C6_Witness ==
    /\ last.op = "flock"
    /\ last.peers = <<"null", "this", "p1", "p2">>
    /\ last.pre.rgb = P1.rgb
    /\ MagSq(last.pre.rgbVel) > maxforce * maxforce
    /\ last.sep # Zero
    /\ last.ali # Zero
    /\ last.coh # Zero

\* C8 (reflection per channel): edges() sets a channel above 255 to 255 and
\* one below 0 to 0, negating that channel's velocity component and no
\* other; a channel within range keeps its value and its component.
C8_EdgesPerChannel ==
    last.op = "edges" =>
        /\ \A k \in 1..3 :
               LET c == last.pre.rgb[k]
                   v == last.pre.rgbVel[k]
               IN  /\ c > ColorMax => this.rgb[k] = ColorMax /\ this.rgbVel[k] = -v
                   /\ c < 0 => this.rgb[k] = 0 /\ this.rgbVel[k] = -v
                   /\ (c >= 0 /\ c <= ColorMax) => this.rgb[k] = c /\ this.rgbVel[k] = v
        /\ this.rgbAcc = last.pre.rgbAcc

\* edges() on a moving Block with one channel above, one below and one within
C8_Witness ==
    /\ last.op = "edges"
    /\ last.pre.rgb[1] > ColorMax
    /\ last.pre.rgb[2] < 0
    /\ last.pre.rgb[3] > 0 /\ last.pre.rgb[3] < ColorMax
    /\ \A k \in 1..3 : last.pre.rgbVel[k] # 0

=============================================================================
